---- MODULE Spec2Model ----
(***************************************************************************)
(* Model of app/main.py: the POST /detect-faces handler (detect_faces),    *)
(* its helpers read_image_from_bytes and upload_crop_to_s3, the S3 bucket  *)
(* they write to, and the clock and uuid source the storage keys are built *)
(* from.                                                                   *)
(*                                                                         *)
(* Bounding-box coordinates are floats in the source; here a coordinate is *)
(* an integer number of halves (3 stands for 1.5), so that the float->int  *)
(* conversion of line 151 is a real conversion.  Strings that the code     *)
(* builds by formatting (the key, the URL) are sequences of one-character  *)
(* strings.                                                                *)
(***************************************************************************)
EXTENDS Integers, Sequences, FiniteSets, TLC

(* ---------------------------------------------------------------- bounds *)
\* largest image width and height
MaxDim == 2
\* most detections the analyzer returns for one image
MaxFaces == 2
\* number of requests in flight in SpecConc
NumReq == 2
\* number of clock ticks (milliseconds) that pass
MaxTicks == 1
\* number of distinct values of uuid4().hex[:8]
NumSuffixes == 2

Requests == 1..NumReq
\* the request of the one-request specification Spec
Single == {1}

(* ------------------------------------------------------------- constants *)
SuffixLen == 8
Channels == 3
\* first reading of the millisecond clock (two digits are one tick away)
ClockStart == 9

\* the messages of the source, accents dropped
MsgInvalidType == "Tipo de arquivo invalido. Envie uma imagem (image/*)."
MsgEmptyFile == "Arquivo vazio."
MsgDecode == "Nao foi possivel decodificar a imagem."
MsgEncode == "Erro ao codificar o crop em JPEG."
MsgUpload == "Falha ao fazer upload para S3: "
MsgNoFaces == "Nenhum rosto detectado na imagem."
MsgFaces == "Rostos detectados e embeddings gerados com InsightFace."
Msg500 == "Erro ao salvar rostos no S3 ou gerar embeddings: "

PUBLIC_BASE_URL == <<"https://bucket.s3.us-east-1.amazonaws.com">>

(* ------------------------------------------------------------ the inputs *)
\* file.content_type: absent, not an image family, an image family
ContentTypes == {<<>>, <<"text/", "plain">>, <<"image/", "png">>}
\* content_type.startswith("image/")
StartsWithImage(content_type) == content_type # <<>> /\ Head(content_type) = "image/"

\* await file.read(): nothing, bytes that are no image, an encoded w x h image
EmptyBody == <<>>
Garbage == <<"garbage">>
Encoded(w, h) == <<"img", w, h>>
Bodies == {EmptyBody, Garbage} \cup {Encoded(w, h) : w \in 1..MaxDim, h \in 1..MaxDim}
\* the body of the requests of SpecConc
ConcBodies == {Encoded(MaxDim, MaxDim)}

\* coordinates the analyzer reports, in halves: -1.5 (left of or above the
\* image) and 1.0, and MaxDim + 1 (right of or below every image)
Near == {-3, 2}
Beyond == 2 * (MaxDim + 1)
BBoxes == {<<x1, y1, x2, y2>> : x1 \in Near, y1 \in Near,
                                x2 \in Near \cup {Beyond}, y2 \in {Beyond}}
\* the boxes of SpecConc: one covering the image, one inverted
ConcBBoxes == {<<0, 0, Beyond, Beyond>>, <<2, 0, 0, Beyond>>}

Detection(b) == [bbox |-> b, normed_embedding |-> "unit"]

RECURSIVE SeqsUpTo(_, _)
SeqsUpTo(S, n) ==
    IF n = 0 THEN {<<>>}
    ELSE LET shorter == SeqsUpTo(S, n - 1)
         IN shorter \cup {Append(s, x) : s \in {t \in shorter : Len(t) = n - 1}, x \in S}

\* what face_app.get(img) can return
Detections(boxes) == SeqsUpTo({Detection(b) : b \in boxes}, MaxFaces)

(* -------------------------------------------------------- pure functions *)
\* numpy astype(int) of a float: truncation toward zero
astype_int(halves) == IF halves >= 0 THEN halves \div 2 ELSE -((-halves) \div 2)

Max(a, b) == IF a >= b THEN a ELSE b
Min(a, b) == IF a <= b THEN a ELSE b

\* lines 151-157: truncate, then x1,y1 up to 0 and x2,y2 down to the shape
ClampBBox(image, bbox) ==
    [x1 |-> Max(0, astype_int(bbox[1])),
     y1 |-> Max(0, astype_int(bbox[2])),
     x2 |-> Min(image.width, astype_int(bbox[3])),
     y2 |-> Min(image.height, astype_int(bbox[4]))]

\* a slice bound of an axis of length n: a negative bound counts from the end
SliceIndex(i, n) == IF i < 0 THEN Max(0, i + n) ELSE Min(i, n)
\* number of elements of a[lo:hi] on an axis of length n
SliceLen(lo, hi, n) == Max(0, SliceIndex(hi, n) - SliceIndex(lo, n))

\* line 159: img[y1:y2, x1:x2]
Crop(image, b) ==
    [height |-> SliceLen(b.y1, b.y2, image.height),
     width |-> SliceLen(b.x1, b.x2, image.width)]
\* ndarray.size
Size(crop) == crop.height * crop.width * Channels

\* cv2.imdecode: None (no image) for bytes that are no image
None == [width |-> 0, height |-> 0]
imdecode(data) ==
    IF Len(data) = 3 /\ data[1] = "img"
    THEN [width |-> data[2], height |-> data[3]]
    ELSE None

\* lines 59-64: the image, or the ValueError raised
read_image_from_bytes(data) ==
    [raised |-> imdecode(data) = None, image |-> imdecode(data)]

DigitChars == <<"0", "1", "2", "3", "4", "5", "6", "7", "8", "9">>
HexChars == DigitChars \o <<"a", "b", "c", "d", "e", "f">>

\* str(n) of a non-negative int
RECURSIVE Str(_)
Str(n) == IF n < 10 THEN <<DigitChars[n + 1]>>
          ELSE Str(n \div 10) \o <<DigitChars[(n % 10) + 1]>>

\* the first SuffixLen hex digits of a uuid whose leading 32 bits are n
Hex8(n) == [i \in 1..SuffixLen |-> HexChars[((n \div (16 ^ (SuffixLen - i))) % 16) + 1]]
Suffixes == {Hex8(n) : n \in 0..(NumSuffixes - 1)}

\* str.strip("/")
RECURSIVE LStrip(_)
LStrip(s) == IF s # <<>> /\ Head(s) = "/" THEN LStrip(Tail(s)) ELSE s
RECURSIVE RStrip(_)
RStrip(s) == IF s # <<>> /\ s[Len(s)] = "/" THEN RStrip(SubSeq(s, 1, Len(s) - 1)) ELSE s
Strip(s) == RStrip(LStrip(s))

Folder == <<"f", "a", "c", "e", "s">>

\* line 80
FileName(timestamp, random_suffix) ==
    <<"f", "a", "c", "e", "_">> \o Str(timestamp) \o <<"_">> \o random_suffix
        \o <<".", "j", "p", "g">>

\* a key that leaves the random suffix out
KeyWithoutSuffix(folder, timestamp, random_suffix) ==
    Strip(folder) \o <<"/">> \o Str(timestamp) \o <<"-">>
        \o <<"f", "a", "c", "e", "_">> \o Str(timestamp) \o <<".", "j", "p", "g">>

\* lines 82-87
Key(folder, timestamp, random_suffix) ==
    IF Strip(folder) # <<>>
    THEN Strip(folder) \o <<"/">> \o Str(timestamp) \o <<"-">>
             \o FileName(timestamp, random_suffix)
    ELSE Str(timestamp) \o <<"-">> \o FileName(timestamp, random_suffix)

\* line 100
Url(key) == PUBLIC_BASE_URL \o <<"/">> \o key

(* ----------------------------------------------------------------- state *)
VARIABLES
    pc,              \* where each request's handler stands
    data,            \* the bytes read from the upload
    img,             \* the decoded image
    faces,           \* what the analyzer returned
    idx,             \* the position the loop of line 149 is at (0-based)
    faces_response,  \* the FaceResults assembled so far
    response,        \* what the handler answered
    store,           \* the bucket: the objects [key, body] in it
    clock,           \* milliseconds of datetime.utcnow()
    readCalls,       \* calls of file.read, per request
    decodeCalls,     \* calls of read_image_from_bytes, per request
    analyzeCalls,    \* calls of face_app.get, per request
    uploadAttempts,  \* positions upload_crop_to_s3 was called for, per request
    uploaded         \* put_object calls that succeeded, per request

vars == <<pc, data, img, faces, idx, faces_response, response, store, clock,
          readCalls, decodeCalls, analyzeCalls, uploadAttempts, uploaded>>

NoResponse == [status |-> 0]

Init ==
    /\ pc = [r \in Requests |-> "validate"]
    /\ data = [r \in Requests |-> <<>>]
    /\ img = [r \in Requests |-> None]
    /\ faces = [r \in Requests |-> <<>>]
    /\ idx = [r \in Requests |-> 0]
    /\ faces_response = [r \in Requests |-> <<>>]
    /\ response = [r \in Requests |-> NoResponse]
    /\ store = {}
    /\ clock = ClockStart
    /\ readCalls = [r \in Requests |-> 0]
    /\ decodeCalls = [r \in Requests |-> 0]
    /\ analyzeCalls = [r \in Requests |-> 0]
    /\ uploadAttempts = [r \in Requests |-> <<>>]
    /\ uploaded = [r \in Requests |-> <<>>]

HTTPException(code, text) == [status |-> code, detail |-> text]
JSONResponse(code, content) ==
    [status |-> code, message |-> content.message,
     faces_count |-> content.faces_count, faces |-> content.faces]

Keys(bucket) == {o.key : o \in bucket}
\* s3_client.put_object: the object under the key is created or replaced
put_object(bucket, key, body) ==
    {o \in bucket : o.key # key} \cup {[key |-> key, body |-> body]}

\* the detection, its clamped box and its crop at the loop's position
Face(r) == faces[r][idx[r] + 1]
Clamped(r) == ClampBBox(img[r], Face(r).bbox)
FaceCrop(r) == Crop(img[r], Clamped(r))

InLoop(r) == pc[r] = "loop" /\ idx[r] < Len(faces[r])

Answer(r, resp) ==
    /\ response' = [response EXCEPT ![r] = resp]
    /\ pc' = [pc EXCEPT ![r] = "done"]

(* --------------------------------------------------------------- actions *)
\* the content-type is looked at only after the body has been read
ValidateContentTypeAfterRead(r) ==
    /\ pc[r] = "validate"
    /\ readCalls' = [readCalls EXCEPT ![r] = @ + 1]
    /\ \E content_type \in ContentTypes :
          IF content_type = <<>> \/ ~StartsWithImage(content_type)
          THEN Answer(r, HTTPException(400, MsgInvalidType))
          ELSE /\ pc' = [pc EXCEPT ![r] = "read"]
               /\ UNCHANGED response
    /\ UNCHANGED <<data, img, faces, idx, faces_response, store, clock,
                   decodeCalls, analyzeCalls, uploadAttempts, uploaded>>

\* lines 118-122
ValidateContentType(r) ==
    /\ pc[r] = "validate"
    /\ \E content_type \in ContentTypes :
          IF content_type = <<>> \/ ~StartsWithImage(content_type)
          THEN Answer(r, HTTPException(400, MsgInvalidType))
          ELSE /\ pc' = [pc EXCEPT ![r] = "read"]
               /\ UNCHANGED response
    /\ UNCHANGED <<data, img, faces, idx, faces_response, store, clock,
                   readCalls, decodeCalls, analyzeCalls, uploadAttempts, uploaded>>

\* lines 124-126
ReadBody(r, bodies) ==
    /\ pc[r] = "read"
    /\ readCalls' = [readCalls EXCEPT ![r] = @ + 1]
    /\ \E d \in bodies :
          /\ data' = [data EXCEPT ![r] = d]
          /\ IF d = <<>>
             THEN Answer(r, HTTPException(400, MsgEmptyFile))
             ELSE /\ pc' = [pc EXCEPT ![r] = "decode"]
                  /\ UNCHANGED response
    /\ UNCHANGED <<img, faces, idx, faces_response, store, clock,
                   decodeCalls, analyzeCalls, uploadAttempts, uploaded>>

\* lines 128-131
Decode(r) ==
    /\ pc[r] = "decode"
    /\ decodeCalls' = [decodeCalls EXCEPT ![r] = @ + 1]
    /\ IF read_image_from_bytes(data[r]).raised
       THEN /\ Answer(r, HTTPException(400, MsgDecode))
            /\ UNCHANGED img
       ELSE /\ img' = [img EXCEPT ![r] = read_image_from_bytes(data[r]).image]
            /\ pc' = [pc EXCEPT ![r] = "analyze"]
            /\ UNCHANGED response
    /\ UNCHANGED <<data, faces, idx, faces_response, store, clock,
                   readCalls, analyzeCalls, uploadAttempts, uploaded>>

\* lines 134-146: the analyzer returns
Analyze(r, boxes) ==
    /\ pc[r] = "analyze"
    /\ analyzeCalls' = [analyzeCalls EXCEPT ![r] = @ + 1]
    /\ \E found \in Detections(boxes) :
          /\ faces' = [faces EXCEPT ![r] = found]
          /\ IF Len(found) = 0
             THEN Answer(r, JSONResponse(200,
                      [message |-> MsgNoFaces, faces_count |-> 0, faces |-> <<>>]))
             ELSE /\ pc' = [pc EXCEPT ![r] = "loop"]
                  /\ UNCHANGED response
    /\ UNCHANGED <<data, img, idx, faces_response, store, clock,
                   readCalls, decodeCalls, uploadAttempts, uploaded>>

\* line 134: the analyzer raises; no try encloses the call, the exception
\* leaves detect_faces
AnalyzeRaises(r) ==
    /\ pc[r] = "analyze"
    /\ analyzeCalls' = [analyzeCalls EXCEPT ![r] = @ + 1]
    /\ pc' = [pc EXCEPT ![r] = "raised"]
    /\ UNCHANGED <<data, img, faces, idx, faces_response, response, store, clock,
                   readCalls, decodeCalls, uploadAttempts, uploaded>>

\* a 500 answer that carries the FaceResults assembled so far
ServerErrorWithPartialFaces(r, e) ==
    [status |-> 500, detail |-> <<Msg500, e>>, faces |-> faces_response[r]]

\* lines 185-189: the 500 answer to the exception e
ServerError(r, e) == HTTPException(500, <<Msg500, e>>)

\* lines 151-159 raise (the bbox cannot be read or sliced)
CropRaises(r) ==
    /\ InLoop(r)
    /\ Answer(r, ServerError(r, "crop"))
    /\ UNCHANGED <<data, img, faces, idx, faces_response, store, clock,
                   readCalls, decodeCalls, analyzeCalls, uploadAttempts, uploaded>>

\* lines 160-161: an empty crop is passed over
Skip(r) ==
    /\ InLoop(r)
    /\ Size(FaceCrop(r)) = 0
    /\ idx' = [idx EXCEPT ![r] = @ + 1]
    /\ UNCHANGED <<pc, data, img, faces, faces_response, response, store, clock,
                   readCalls, decodeCalls, analyzeCalls, uploadAttempts, uploaded>>

\* lines 164, 72-74: cv2.imencode fails
EncodeFails(r) ==
    /\ InLoop(r)
    /\ Size(FaceCrop(r)) # 0
    /\ uploadAttempts' = [uploadAttempts EXCEPT ![r] = Append(@, idx[r])]
    /\ Answer(r, ServerError(r, MsgEncode))
    /\ UNCHANGED <<data, img, faces, idx, faces_response, store, clock,
                   readCalls, decodeCalls, analyzeCalls, uploaded>>

\* a failed put_object that deletes what the request had uploaded
PutFailsWithRollback(r) ==
    /\ InLoop(r)
    /\ Size(FaceCrop(r)) # 0
    /\ uploadAttempts' = [uploadAttempts EXCEPT ![r] = Append(@, idx[r])]
    /\ store' = {o \in store : o.body.request # r}
    /\ Answer(r, ServerError(r, MsgUpload))
    /\ UNCHANGED <<data, img, faces, idx, faces_response, clock,
                   readCalls, decodeCalls, analyzeCalls, uploaded>>

\* a failed put_object that is tried a second time
PutFailsWithRetry(r) ==
    /\ InLoop(r)
    /\ Size(FaceCrop(r)) # 0
    /\ uploadAttempts' = [uploadAttempts EXCEPT ![r] = Append(Append(@, idx[r]), idx[r])]
    /\ Answer(r, ServerError(r, MsgUpload))
    /\ UNCHANGED <<data, img, faces, idx, faces_response, store, clock,
                   readCalls, decodeCalls, analyzeCalls, uploaded>>

\* lines 164, 89-98: put_object fails
PutFails(r) ==
    /\ InLoop(r)
    /\ Size(FaceCrop(r)) # 0
    /\ uploadAttempts' = [uploadAttempts EXCEPT ![r] = Append(@, idx[r])]
    /\ Answer(r, ServerError(r, MsgUpload))
    /\ UNCHANGED <<data, img, faces, idx, faces_response, store, clock,
                   readCalls, decodeCalls, analyzeCalls, uploaded>>

\* lines 78-87, 100: the key and the URL of an upload at this millisecond
upload_crop_to_s3(folder, timestamp, random_suffix) ==
    [key |-> Key(folder, timestamp, random_suffix),
     url |-> Url(Key(folder, timestamp, random_suffix)),
     timestamp |-> timestamp,
     random_suffix |-> random_suffix]

\* lines 89-96: the crop at the loop's position is stored under the key
Stored(r, up) ==
    /\ store' = put_object(store, up.key, [crop |-> FaceCrop(r), request |-> r, face |-> idx[r]])
    /\ uploadAttempts' = [uploadAttempts EXCEPT ![r] = Append(@, idx[r])]
    /\ uploaded' = [uploaded EXCEPT ![r] = Append(@, up)]

\* lines 172-184
FaceResult(r, url) ==
    [face_id |-> idx[r], bbox |-> Clamped(r), entity_path |-> url,
     embedding |-> Face(r).normed_embedding]

\* lines 164-184: the crop is uploaded and the FaceResult appended
Publish(r) ==
    /\ InLoop(r)
    /\ Size(FaceCrop(r)) # 0
    /\ \E random_suffix \in Suffixes :
          LET up == upload_crop_to_s3(Folder, clock, random_suffix)
          IN /\ Stored(r, up)
             /\ faces_response' = [faces_response EXCEPT ![r] = Append(@, FaceResult(r, up.url))]
    /\ idx' = [idx EXCEPT ![r] = @ + 1]
    /\ UNCHANGED <<pc, data, img, faces, response, clock, readCalls, decodeCalls, analyzeCalls>>

\* lines 164-170: the crop is uploaded, then the embedding cannot be read
EmbeddingRaises(r) ==
    /\ InLoop(r)
    /\ Size(FaceCrop(r)) # 0
    /\ \E random_suffix \in Suffixes :
          Stored(r, upload_crop_to_s3(Folder, clock, random_suffix))
    /\ Answer(r, ServerError(r, "embedding"))
    /\ UNCHANGED <<data, img, faces, idx, faces_response, clock,
                   readCalls, decodeCalls, analyzeCalls>>

\* a response that counts the detections instead of the FaceResults
RespondCountingDetections(r) ==
    /\ pc[r] = "loop"
    /\ idx[r] = Len(faces[r])
    /\ Answer(r, JSONResponse(200,
           [message |-> MsgFaces, faces_count |-> Len(faces[r]),
            faces |-> faces_response[r]]))
    /\ UNCHANGED <<data, img, faces, idx, faces_response, store, clock,
                   readCalls, decodeCalls, analyzeCalls, uploadAttempts, uploaded>>

\* lines 191-197
Respond(r) ==
    /\ pc[r] = "loop"
    /\ idx[r] = Len(faces[r])
    /\ Answer(r, JSONResponse(200,
           [message |-> MsgFaces, faces_count |-> Len(faces_response[r]),
            faces |-> faces_response[r]]))
    /\ UNCHANGED <<data, img, faces, idx, faces_response, store, clock,
                   readCalls, decodeCalls, analyzeCalls, uploadAttempts, uploaded>>

\* a millisecond passes
Tick ==
    /\ clock < ClockStart + MaxTicks
    /\ clock' = clock + 1
    /\ UNCHANGED <<pc, data, img, faces, idx, faces_response, response, store,
                   readCalls, decodeCalls, analyzeCalls, uploadAttempts, uploaded>>

(* -------------------------------------------------------- specifications *)
\* one request, every body and every box, within one millisecond
Next ==
    \/ \E r \in Single : ValidateContentType(r)
    \/ \E r \in Single : ReadBody(r, Bodies)
    \/ \E r \in Single : Decode(r)
    \/ \E r \in Single : Analyze(r, BBoxes)
    \/ \E r \in Single : AnalyzeRaises(r)
    \/ \E r \in Single : CropRaises(r)
    \/ \E r \in Single : Skip(r)
    \/ \E r \in Single : EncodeFails(r)
    \/ \E r \in Single : PutFails(r)
    \/ \E r \in Single : Publish(r)
    \/ \E r \in Single : EmbeddingRaises(r)
    \/ \E r \in Single : Respond(r)

Spec == Init /\ [][Next]_vars

\* NumReq requests in flight at once while the clock advances, on one image
\* and two boxes, the analyzer and the bucket not failing
NextConc ==
    \/ \E r \in Requests : ValidateContentType(r)
    \/ \E r \in Requests : ReadBody(r, ConcBodies)
    \/ \E r \in Requests : Decode(r)
    \/ \E r \in Requests : Analyze(r, ConcBBoxes)
    \/ \E r \in Requests : Skip(r)
    \/ \E r \in Requests : Publish(r)
    \/ \E r \in Requests : Respond(r)
    \/ Tick

SpecConc == Init /\ [][NextConc]_vars

(* ---------------------------------------------------------------- claims *)
Ok(r) == pc[r] = "done" /\ response[r].status = 200
Failed(r) == pc[r] = "done" /\ response[r].status = 500
Rejected(r) == pc[r] = "done" /\ response[r].status = 400
\* the analyzer was called and returned
Analyzed(r) == analyzeCalls[r] = 1 /\ pc[r] \in {"loop", "done"}

FaceIds(r) == [i \in 1..Len(response[r].faces) |-> response[r].faces[i].face_id]

\* the region a box bounds after truncating and clamping as the claim words
\* it, and whether that region has no area
Truncated(halves) == IF halves >= 0 THEN halves \div 2 ELSE -((-halves) \div 2)
ZeroArea(image, bbox) ==
    LET x1 == IF Truncated(bbox[1]) < 0 THEN 0 ELSE Truncated(bbox[1])
        y1 == IF Truncated(bbox[2]) < 0 THEN 0 ELSE Truncated(bbox[2])
        x2 == IF Truncated(bbox[3]) > image.width THEN image.width ELSE Truncated(bbox[3])
        y2 == IF Truncated(bbox[4]) > image.height THEN image.height ELSE Truncated(bbox[4])
    IN x2 <= x1 \/ y2 <= y1
\* the 0-based positions of the detections whose clamped box has an area
KeptPositions(r) ==
    SelectSeq([i \in 1..Len(faces[r]) |-> i - 1],
              LAMBDA i : ~ZeroArea(img[r], faces[r][i + 1].bbox))

\* C1: when the analyzer returned N detections, K of them with a zero-area
\* clamped box, and no step failed, the response is 200, faces_count is N-K,
\* the face_ids are the positions of the other detections in the analyzer's
\* order, and uploads were made for exactly those positions.
C1_FaceIdsArePositionsOfNonEmptyBoxes ==
    \A r \in Requests :
        (pc[r] = "done" /\ Analyzed(r) /\ response[r].status # 500)
        => /\ response[r].status = 200
           /\ response[r].faces_count = Len(KeptPositions(r))
           /\ FaceIds(r) = KeptPositions(r)
           /\ uploadAttempts[r] = KeptPositions(r)

\* C2: every bbox of a 200 response lies inside the image and is not inverted:
\* 0 <= x1 <= x2 <= width and 0 <= y1 <= y2 <= height.
C2_BBoxWithinImage ==
    \A r \in Requests :
        Ok(r) => \A i \in 1..Len(response[r].faces) :
                    LET b == response[r].faces[i].bbox
                    IN /\ 0 <= b.x1 /\ b.x1 <= b.x2 /\ b.x2 <= img[r].width
                       /\ 0 <= b.y1 /\ b.y1 <= b.y2 /\ b.y2 <= img[r].height

\* C3: in every 200 response faces_count is the length of the faces list; and
\* once the analyzer has returned no detection the response is 200 with
\* faces_count 0, an empty faces list, and nothing was uploaded.
C3_CountIsLengthOfFaces ==
    \A r \in Requests :
        /\ Ok(r) => response[r].faces_count = Len(response[r].faces)
        /\ (Analyzed(r) /\ Len(faces[r]) = 0)
           => /\ Ok(r)
              /\ response[r].faces_count = 0
              /\ response[r].faces = <<>>
              /\ uploadAttempts[r] = <<>>
              /\ \A o \in store : o.body.request # r
\* a 200 response that counts one FaceResult of two detections
C3_Witness ==
    \E r \in Requests :
        Ok(r) /\ Len(faces[r]) = 2 /\ response[r].faces_count = 1

\* C4: a request that ended inside the per-detection loop, at whatever
\* position, ended with a 500 response, and a 500 response has a status and a
\* detail and no faces list.
C4_FailureDiscardsPartialFaces ==
    \A r \in Requests :
        /\ (pc[r] = "done" /\ Analyzed(r) /\ idx[r] < Len(faces[r])) => Failed(r)
        /\ Failed(r) => DOMAIN response[r] = {"status", "detail"}
\* a 500 response of a request that had assembled a FaceResult
C4_Witness ==
    \E r \in Requests : Failed(r) /\ Len(faces_response[r]) >= 1 /\ idx[r] >= 1

\* C5: a request answered 400 has called neither the analyzer nor the bucket;
\* one rejected for its content-type has not read the body, and one rejected
\* for an empty body has not decoded.
C5_RejectedBeforeWork ==
    \A r \in Requests :
        Rejected(r)
        => /\ analyzeCalls[r] = 0
           /\ uploadAttempts[r] = <<>>
           /\ uploaded[r] = <<>>
           /\ \A o \in store : o.body.request # r
           /\ response[r].detail = MsgInvalidType => readCalls[r] = 0 /\ decodeCalls[r] = 0
           /\ response[r].detail = MsgEmptyFile => decodeCalls[r] = 0
\* a request rejected for its content-type
C5_Witness ==
    \E r \in Requests :
        Rejected(r) /\ response[r].detail = MsgInvalidType

\* C6: no failure leaves the handler uncaught: a request never ends by an
\* exception, and a finished one carries a 200, 400 or 500 answer.
C6_NoErrorEscapesTheHandler ==
    \A r \in Requests :
        /\ pc[r] # "raised"
        /\ pc[r] = "done" => response[r].status \in {200, 400, 500}

\* the uploads made so far, each with the request and its rank in the request
Puts == {<<r, i>> : r \in Requests, i \in 1..MaxFaces}
Made(p) == p[2] <= Len(uploaded[p[1]])
Put(p) == uploaded[p[1]][p[2]]

\* C7 as stated: any two uploads have different keys and different URLs.
C7_KeysNeverCollide ==
    \A p \in Puts : \A q \in Puts :
        (Made(p) /\ Made(q) /\ p # q)
        => Put(p).key # Put(q).key /\ Put(p).url # Put(q).url

\* C7 as amended: two uploads whose millisecond timestamps differ or whose
\* random suffixes differ have different keys and different URLs, and the
\* bucket then holds one object per (timestamp, suffix) pair drawn.
C7_KeysDifferUnlessSameStampAndSuffix ==
    /\ \A p \in Puts : \A q \in Puts :
          (/\ Made(p) /\ Made(q)
           /\ \/ Put(p).timestamp # Put(q).timestamp
              \/ Put(p).random_suffix # Put(q).random_suffix)
          => Put(p).key # Put(q).key /\ Put(p).url # Put(q).url
    /\ Cardinality(store)
         = Cardinality({<<Put(p).timestamp, Put(p).random_suffix>> : p \in {q \in Puts : Made(q)}})
\* two requests have uploaded in the same millisecond with different suffixes,
\* and one of them twice
C7_Witness ==
    \E p \in Puts : \E q \in Puts :
        /\ Made(p) /\ Made(q) /\ p[1] # q[1]
        /\ Put(p).timestamp = Put(q).timestamp
        /\ Put(p).random_suffix # Put(q).random_suffix
        /\ Len(uploaded[p[1]]) = 2

\* C8: no step removes an object from the bucket, and when a request ends
\* with 500 every object it uploaded is in the bucket.
C8_NoRollback ==
    [][/\ Keys(store) \subseteq Keys(store')
       /\ \A r \in Requests :
             response'[r].status = 500
             => \A i \in 1..Len(uploaded'[r]) : uploaded'[r][i].key \in Keys(store')]_vars
\* a request that failed on its second detection, the first one's crop stored
C8_Witness ==
    \E r \in Requests :
        /\ Failed(r) /\ idx[r] = 1 /\ Len(uploaded[r]) = 1
        /\ uploaded[r][1].key \in Keys(store)

StrictlyIncreasing(s) == \A i \in 1..Len(s) : \A j \in 1..Len(s) : i < j => s[i] < s[j]

\* C9: the body is read, then decoded, then analyzed, each at most once; the
\* uploads attempted are for positions of the analyzer's list in increasing
\* order, at most one per detection and none beyond the loop's position, and
\* none before the analyzer returned; a request that has ended attempts
\* nothing more.
C9_StepsInOrderAtMostOnce ==
    /\ [](\A r \in Requests :
            /\ readCalls[r] <= 1 /\ decodeCalls[r] <= readCalls[r]
            /\ analyzeCalls[r] <= decodeCalls[r]
            /\ StrictlyIncreasing(uploadAttempts[r])
            /\ \A i \in 1..Len(uploadAttempts[r]) :
                  uploadAttempts[r][i] < Len(faces[r]) /\ uploadAttempts[r][i] <= idx[r]
            /\ uploadAttempts[r] # <<>> => Analyzed(r))
    /\ [][\A r \in Requests :
            pc[r] \in {"done", "raised"}
            => /\ uploadAttempts'[r] = uploadAttempts[r]
               /\ readCalls'[r] = readCalls[r]
               /\ decodeCalls'[r] = decodeCalls[r]
               /\ analyzeCalls'[r] = analyzeCalls[r]]_vars
\* an upload failed for the first of two detections
C9_Witness ==
    \E r \in Requests :
        Failed(r) /\ uploadAttempts[r] = <<0>> /\ idx[r] = 0 /\ Len(faces[r]) = 2

\* C10: a 200 response carries the no-faces message exactly when its faces
\* list is empty.
C10_MessageMatchesPayload ==
    \A r \in Requests :
        Ok(r) => (response[r].message = MsgNoFaces <=> response[r].faces = <<>>)

====
